---- MODULE Spec2Model ----
(***************************************************************************)
(* A model of webhook.py: the Flask handler that turns a TradingView alert *)
(* into a Kraken market order.                                             *)
(*                                                                         *)
(* Python strings are TLA+ strings, handled through Sequences character by *)
(* character.  JSON values, floats and the handler's responses are tagged  *)
(* records.  Amounts and prices are whole numbers; a volume is counted in  *)
(* units of 0.00000001 (the quantum the code quantizes to).  Where the     *)
(* result of a binary64 operation depends on its 53-bit rounding, every    *)
(* result the rounding can give is an outcome.                             *)
(*                                                                         *)
(* Two requests are in flight at most; the handler shares no state between *)
(* requests.  A request is cut at its two exchange calls, where it blocks. *)
(***************************************************************************)
EXTENDS Integers, Sequences, FiniteSets, TLC

VARIABLES
    WEBHOOK_TOKEN,  \* the configured bearer token ("" when none is configured)
    req,            \* per request: the handler's locals, position and response
    accepted,       \* whether some request has already passed auth and parsing
    fn              \* the pure function under test and its inputs and outputs

vars == <<WEBHOOK_TOKEN, req, accepted, fn>>

-----------------------------------------------------------------------------
(* Python str methods *)

Lowers == "abcdefghijklmnopqrstuvwxyz"
Uppers == "ABCDEFGHIJKLMNOPQRSTUVWXYZ"
Digits == "0123456789"
Whitespace == {" ", "\t", "\n", "\r"}

CharAt(s, i) == SubSeq(s, i, i)

Chars(s) == {CharAt(s, i) : i \in 1..Len(s)}

IndexIn(c, s) == CHOOSE i \in 1..Len(s) : CharAt(s, i) = c

UpperChar(c) == IF c \in Chars(Lowers) THEN CharAt(Uppers, IndexIn(c, Lowers)) ELSE c

LowerChar(c) == IF c \in Chars(Uppers) THEN CharAt(Lowers, IndexIn(c, Uppers)) ELSE c

RECURSIVE StrUpper(_)
StrUpper(s) == IF s = "" THEN "" ELSE UpperChar(Head(s)) \o StrUpper(Tail(s))

RECURSIVE StrLower(_)
StrLower(s) == IF s = "" THEN "" ELSE LowerChar(Head(s)) \o StrLower(Tail(s))

\* s.replace(old, new): leftmost occurrences first, never overlapping,
\* and the inserted text is not scanned again.
RECURSIVE StrReplace(_, _, _)
StrReplace(s, old, new) ==
    IF Len(s) < Len(old) THEN s
    ELSE IF SubSeq(s, 1, Len(old)) = old
         THEN new \o StrReplace(SubSeq(s, Len(old) + 1, Len(s)), old, new)
         ELSE Head(s) \o StrReplace(Tail(s), old, new)

RECURSIVE LStrip(_)
LStrip(s) == IF s # "" /\ Head(s) \in Whitespace THEN LStrip(Tail(s)) ELSE s

RECURSIVE RStrip(_)
RStrip(s) ==
    IF s # "" /\ CharAt(s, Len(s)) \in Whitespace
    THEN RStrip(SubSeq(s, 1, Len(s) - 1))
    ELSE s

StrStrip(s) == RStrip(LStrip(s))

Contains(s, c) == \E i \in 1..Len(s) : CharAt(s, i) = c

FirstIndex(s, c) == CHOOSE i \in 1..Len(s) :
    /\ CharAt(s, i) = c
    /\ \A j \in 1..(i - 1) : CharAt(s, j) # c

\* s.split(sep) for a one-character sep: the pieces between the separators.
RECURSIVE StrSplit(_, _)
StrSplit(s, sep) ==
    IF ~Contains(s, sep) THEN <<s>>
    ELSE <<SubSeq(s, 1, FirstIndex(s, sep) - 1)>>
         \o StrSplit(SubSeq(s, FirstIndex(s, sep) + 1, Len(s)), sep)

-----------------------------------------------------------------------------
(* normalize_pair *)

DEFAULT_PAIR == "XBTUSD"

normalize_pair(symbol) ==
    IF symbol = "" THEN DEFAULT_PAIR
    ELSE LET u == StrUpper(symbol)
             p == StrReplace(StrReplace(StrReplace(u, "-", ""), "_", ""), "/", "")
         IN  StrReplace(p, "BTC", "XBT")

-----------------------------------------------------------------------------
(* JSON values and Python floats *)

JStr(s) == [t |-> "str", s |-> s, n |-> 0]
JNum(n) == [t |-> "num", s |-> "", n |-> n]
JNull == [t |-> "null", s |-> "", n |-> 0]
JList == [t |-> "list", s |-> "", n |-> 0]   \* a non-empty JSON array

\* Python truthiness of a JSON value
Truthy(v) ==
    CASE v.t = "str" -> v.s # ""
      [] v.t = "num" -> v.n # 0
      [] v.t = "null" -> FALSE
      [] OTHER -> TRUE

\* a or b
PyOr(a, b) == IF Truthy(a) THEN a ELSE b

FNum(v) == [k |-> "num", v |-> v]
FNaN == [k |-> "nan", v |-> 0]
FInf(sign) == [k |-> "inf", v |-> sign]

RECURSIVE DigitsValue(_)
DigitsValue(s) ==
    IF s = "" THEN 0
    ELSE DigitsValue(SubSeq(s, 1, Len(s) - 1)) * 10 + (IndexIn(CharAt(s, Len(s)), Digits) - 1)

\* float(s) for a str: surrounding whitespace is dropped, a sign is allowed,
\* "nan", "inf" and "infinity" are accepted in any letter case, anything
\* else must be a run of digits (the model's inputs carry no '.', 'e' or '_').
\* ok = FALSE stands for ValueError.
ParseFloat(s) ==
    LET t == StrLower(StrStrip(s))
        signed == t # "" /\ Head(t) \in {"+", "-"}
        sign == IF signed /\ Head(t) = "-" THEN -1 ELSE 1
        body == IF signed THEN Tail(t) ELSE t
    IN  IF body = "nan" THEN [ok |-> TRUE, f |-> FNaN]
        ELSE IF body \in {"inf", "infinity"} THEN [ok |-> TRUE, f |-> FInf(sign)]
        ELSE IF body # "" /\ Chars(body) \subseteq Chars(Digits)
             THEN [ok |-> TRUE, f |-> FNum(sign * DigitsValue(body))]
             ELSE [ok |-> FALSE, f |-> FNaN]

\* float(v) for a JSON value; ok = FALSE stands for ValueError or TypeError.
ToFloat(v) ==
    CASE v.t = "num" -> [ok |-> TRUE, f |-> FNum(v.n)]
      [] v.t = "str" -> ParseFloat(v.s)
      [] OTHER -> [ok |-> FALSE, f |-> FNaN]

-----------------------------------------------------------------------------
(* parse_message *)

EmptyDict == [k \in {} |-> JNull]

DictPayload(d) == [kind |-> "dict", d |-> d, s |-> ""]
StrPayload(s) == [kind |-> "str", d |-> EmptyDict, s |-> s]
OtherPayload == [kind |-> "other", d |-> EmptyDict, s |-> ""]

\* d.get(k)
DictGet(d, k) == IF k \in DOMAIN d THEN d[k] ELSE JNull

NoIntent == [none |-> TRUE, symbol |-> JNull, action |-> "", amount |-> FNaN]

Intent(symbol, action, amount) ==
    [none |-> FALSE, symbol |-> symbol, action |-> action, amount |-> amount]

\* The loop of lines 60-64: a part with a ':' sets data[key] (a later part
\* overwrites an earlier one); a part without one is skipped.
RECURSIVE BuildData(_, _)
BuildData(parts, data) ==
    IF parts = <<>> THEN data
    ELSE LET part == Head(parts)
             i == FirstIndex(part, ":")
             k == StrLower(StrStrip(SubSeq(part, 1, i - 1)))
             v == StrStrip(SubSeq(part, i + 1, Len(part)))
         IN  IF Contains(part, ":")
             THEN BuildData(Tail(parts),
                            [x \in DOMAIN data \cup {k} |-> IF x = k THEN v ELSE data[x]])
             ELSE BuildData(Tail(parts), data)

\* data.get(k), of which the code only uses the truthiness and the text
DataGet(data, k) == IF k \in DOMAIN data THEN data[k] ELSE ""

\* lines 59-75: the delimited message
ParseDelimited(msg) ==
    LET pieces == StrSplit(msg, ";")
        parts == SelectSeq([i \in 1..Len(pieces) |-> StrStrip(pieces[i])],
                           LAMBDA p : p # "")
        data == BuildData(parts, [k \in {} |-> ""])
        symbol == IF DataGet(data, "symbol") # "" THEN DataGet(data, "symbol")
                  ELSE DataGet(data, "pair")
        action == DataGet(data, "action")
        amount == DataGet(data, "amount")
    IN  IF symbol = "" \/ action = "" \/ amount = "" THEN NoIntent
        ELSE IF ~ParseFloat(amount).ok THEN NoIntent
        ELSE Intent(JStr(symbol), StrLower(action), ParseFloat(amount).f)

\* lines 43-48: the structured object; any exception raised here is caught
\* at line 53 and leaves msg = None.
ParseDirect(d) ==
    LET s == PyOr(PyOr(DictGet(d, "symbol"), DictGet(d, "ticker")), DictGet(d, "pair"))
        a == DictGet(d, "action")
        amt == DictGet(d, "amount")
    IN  IF Truthy(s) /\ Truthy(a) /\ amt.t # "null"
        THEN IF a.t # "str" THEN NoIntent            \* a.lower(): AttributeError
             ELSE IF ~ToFloat(amt).ok THEN NoIntent  \* float(amt): ValueError, TypeError
             ELSE Intent(s, StrLower(a.s), ToFloat(amt).f)
        ELSE NoIntent

parse_message(payload) ==
    IF payload.kind = "dict"
    THEN LET m == DictGet(payload.d, "message")
         IN  IF Truthy(m) /\ m.t = "str"
             THEN ParseDelimited(m.s)
             ELSE ParseDirect(payload.d)
    ELSE IF payload.kind = "str"
         THEN IF payload.s = "" THEN NoIntent ELSE ParseDelimited(payload.s)
         ELSE NoIntent

-----------------------------------------------------------------------------
(* The volume arithmetic of lines 145-146 and 96 *)

\* Decimal('0.00000001'): volumes are counted in this quantum
Quanta == 100000000

\* 5^8: n quanta is n / (2^8 * 5^8), a binary fraction exactly when 5^8 divides n
FiveToEighth == 390625

Abs(n) == IF n < 0 THEN -n ELSE n
Sgn(n) == IF n < 0 THEN -1 ELSE IF n > 0 THEN 1 ELSE 0

\* ROUND_DOWN: truncation toward zero
TruncDiv(a, b) == Sgn(a) * Sgn(b) * (Abs(a) \div Abs(b))

\* One quantum nearer to zero
TowardZero(n) == n - Sgn(n)

\* Decimal(f).quantize(Decimal('0.00000001'), rounding=ROUND_DOWN) for the
\* binary64 f nearest to n quanta.  Decimal(f) is the exact value of f: when n
\* quanta is no binary fraction, f lies just below or just above it, and the
\* truncation gives one quantum less or n itself.  Which of the two depends
\* on the 53-bit rounding, so both are outcomes.
QuantizeFloat(n) == IF n % FiveToEighth = 0 THEN {n} ELSE {n, TowardZero(n)}

\* lines 145-146: volume = usd_amount / price, then quantized and converted
\* back to float.  The result is every outcome the float division allows:
\* raised names the exception that leaves the handler, volume is in quanta.
ComputeVolume(usd_amount, price) ==
    LET Raise(e) == {[raised |-> e, volume |-> FNaN]}
        Value(S) == {[raised |-> "", volume |-> f] : f \in S}
    IN  IF price.k = "num" /\ price.v = 0 THEN Raise("ZeroDivisionError")
        ELSE IF usd_amount.k = "nan" \/ price.k = "nan" THEN Value({FNaN})
        ELSE IF usd_amount.k = "inf"
             THEN IF price.k = "inf" THEN Value({FNaN})
                  ELSE Raise("InvalidOperation")     \* Decimal('Infinity').quantize
        ELSE IF price.k = "inf" THEN Value({FNum(0)})
        ELSE LET exact == (usd_amount.v * Quanta) % Abs(price.v) = 0
                 t == TruncDiv(usd_amount.v * Quanta, price.v)
             IN  Value({FNum(n) : n \in IF exact THEN QuantizeFloat(t) ELSE {t}})

\* line 96: vol_str, again in quanta ("NaN" for a NaN volume)
VolStr(volume) ==
    IF volume.k = "num" THEN {FNum(n) : n \in QuantizeFloat(volume.v)} ELSE {volume}

-----------------------------------------------------------------------------
(* The exchange, as krakenex reports it *)

\* query_public('Ticker'): a raised transport exception, or a response with
\* an error list and a result holding the last trade price as text (last = ""
\* stands for an empty result).
TickerRaise == [raised |-> TRUE, error |-> <<>>, last |-> ""]
TickerResp(error, last) == [raised |-> FALSE, error |-> error, last |-> last]

\* Fault: the response's error field is not looked at
get_last_price_unchecked(res) ==
    IF res.raised THEN [ok |-> FALSE, price |-> FNaN]
    ELSE IF res.last = "" THEN [ok |-> FALSE, price |-> FNaN]
    ELSE [ok |-> ParseFloat(res.last).ok, price |-> ParseFloat(res.last).f]

\* get_last_price: ok = FALSE when it raises
get_last_price(res) ==
    IF res.raised THEN [ok |-> FALSE, price |-> FNaN]
    ELSE IF res.error # <<>> THEN [ok |-> FALSE, price |-> FNaN]
    ELSE IF res.last = "" THEN [ok |-> FALSE, price |-> FNaN]
    ELSE [ok |-> ParseFloat(res.last).ok, price |-> ParseFloat(res.last).f]

\* query_private('AddOrder'): raised, or a response with an error list
OrderRaise == [raised |-> TRUE, error |-> <<>>]
OrderResp(error) == [raised |-> FALSE, error |-> error]
NoOrderResp == [raised |-> FALSE, error |-> <<>>]

\* line 94
OrderType(action) == IF action = "buy" THEN "buy" ELSE "sell"

-----------------------------------------------------------------------------
(* The requests and exchange behaviours the handler is run on.  The pure  *)
(* calls the handler makes on them are tabulated, each computed once.    *)

Tokens == {"", "s3cret"}

\* request.headers.get('Authorization', ''): "" is an absent header
AuthHeaders == {"", "Bearer s3cret", "Bearer s3cre"}

\* {"<key>": symbol, "action": action, "amount": amount}
Obj(key, symbol, action, amount) ==
    [k \in {key, "action", "amount"} |->
        IF k = key THEN symbol ELSE IF k = "action" THEN action ELSE amount]

\* {"message": msg}
Msg(msg) == [k \in {"message"} |-> JStr(msg)]

\* {"message": "symbol: BTC-USD; action: buy; amount: 10"}
AlertBuy == DictPayload(Msg("symbol: BTC-USD; action: buy; amount: 10"))
\* {"ticker": "BTC-CAD", "action": "Sell", "amount": 10}
AlertSellCad == DictPayload(Obj("ticker", JStr("BTC-CAD"), JStr("Sell"), JNum(10)))
\* an action that is neither buy nor sell
AlertHold == DictPayload(Obj("symbol", JStr("BTC-USD"), JStr("hold"), JStr("10")))
\* an amount below zero
AlertNegative == StrPayload("pair: eth/usd; action: SELL; amount: -5")
\* no amount
AlertNoAmount == StrPayload("symbol: BTC-USD; action: buy")
\* a symbol that is a JSON number
AlertNumericSymbol == DictPayload(Obj("symbol", JNum(5), JStr("buy"), JNum(10)))
\* an amount that float() reads as infinity
AlertInfinite == StrPayload("symbol: BTC-USD; action: buy; amount: inf")

HandlerPayloads ==
    { AlertBuy, AlertSellCad, AlertHold, AlertNegative, AlertNoAmount,
      AlertNumericSymbol, AlertInfinite, OtherPayload }

\* parse_message over the payloads above
Parsed == [p \in HandlerPayloads |-> parse_message(p)]

\* normalize_pair over the symbols parsed from them ("" where the parsed
\* symbol is no str)
Normalized ==
    [p \in HandlerPayloads |->
        IF Parsed[p].symbol.t = "str" THEN normalize_pair(Parsed[p].symbol.s) ELSE ""]

TickerOutcomes ==
    { TickerRaise,
      TickerResp(<<"EQuery:Unknown asset pair">>, ""),
      TickerResp(<<"EGeneral:Internal error">>, "3"),
      TickerResp(<<>>, ""),
      TickerResp(<<>>, "0"),
      TickerResp(<<>>, "3"),
      TickerResp(<<>>, "2000000000") }

\* get_last_price over the exchange's answers
LastPrice == [res \in TickerOutcomes |-> get_last_price(res)]

OrderOutcomes ==
    { OrderRaise,
      OrderResp(<<>>),
      OrderResp(<<"EOrder:Insufficient funds">>) }

-----------------------------------------------------------------------------
(* The handler *)

Reqs == {"r1", "r2"}

NoResp == [code |-> 0, status |-> "", message |-> ""]
Resp(code, status, message) == [code |-> code, status |-> status, message |-> message]

NoOrder == [pair |-> "", type |-> "", volume |-> FNaN]

\* gap of a request that no accepted request precedes
NoPrev == -1

IdleReq ==
    [pc |-> "idle", auth |-> "", payload |-> OtherPayload, gap |-> NoPrev,
     parsed |-> NoIntent, symbol |-> "", price |-> FNaN, volume |-> FNaN,
     ticker |-> TickerRaise, order |-> NoOrder, orderRes |-> NoOrderResp,
     trace |-> <<>>, raised |-> "", resp |-> NoResp]

\* Fault: the header is compared as a prefix of the expected text
AuthorizedStartsWith(token, auth) ==
    \/ token = ""
    \/ /\ Len(auth) <= Len("Bearer " \o token)
       /\ SubSeq("Bearer " \o token, 1, Len(auth)) = auth

\* lines 113-118
Authorized(token, auth) == token = "" \/ auth = "Bearer " \o token

\* lines 111-136: from the request's arrival to the call of get_last_price.
\* body = FALSE is a body that is no UTF-8 text: get_json(silent=True) gives
\* None, decode raises at line 123 and again in the handler at line 125.
Receive(r, auth, body, payload, gap) ==
    /\ req[r].pc = "idle"
    /\ LET q == [req[r] EXCEPT !.auth = auth, !.payload = payload, !.gap = gap]
           parsed == Parsed[payload]
           t1 == <<"parse_message">>
           t2 == <<"parse_message", "normalize_pair">>
           q2 ==
             IF ~Authorized(WEBHOOK_TOKEN, auth)
             THEN [q EXCEPT !.pc = "done", !.resp = Resp(401, "error", "unauthorized")]
             ELSE IF ~body
             THEN [q EXCEPT !.pc = "crashed", !.raised = "UnicodeDecodeError"]
             ELSE IF parsed.none
             THEN [q EXCEPT !.pc = "done", !.trace = t1,
                            !.resp = Resp(400, "error", "invalid payload")]
             ELSE IF parsed.symbol.t # "str"
             THEN [q EXCEPT !.pc = "crashed", !.trace = t2, !.parsed = parsed,
                            !.raised = "AttributeError"]
             ELSE [q EXCEPT !.pc = "price", !.trace = t2, !.parsed = parsed,
                            !.symbol = Normalized[payload]]
       IN  /\ req' = [req EXCEPT ![r] = q2]
           /\ accepted' = (accepted \/ q2.pc = "price")
    /\ UNCHANGED <<WEBHOOK_TOKEN, fn>>

\* lines 138-148: get_last_price and the volume computed from its result
GetLastPrice(r, res) ==
    /\ req[r].pc = "price"
    /\ LET q == [req[r] EXCEPT !.ticker = res,
                               !.trace = @ \o <<"get_last_price", "Ticker">>]
           got == LastPrice[res]
       IN  IF ~got.ok
           THEN req' = [req EXCEPT ![r] =
                    [q EXCEPT !.pc = "done",
                              !.resp = Resp(500, "error", "price_fetch_failed")]]
           ELSE \E c \in ComputeVolume(q.parsed.amount, got.price) :
                    req' = [req EXCEPT ![r] =
                        IF c.raised # ""
                        THEN [q EXCEPT !.pc = "crashed", !.price = got.price,
                                       !.raised = c.raised]
                        ELSE [q EXCEPT !.pc = "order", !.price = got.price,
                                       !.volume = c.volume]]
    /\ UNCHANGED <<WEBHOOK_TOKEN, accepted, fn>>

\* Fault: a submission that raised is submitted again
PlaceMarketOrderRetry(r, res) ==
    /\ req[r].pc = "order"
    /\ \E v \in VolStr(req[r].volume) :
        LET q == [req[r] EXCEPT
                    !.order = [pair |-> req[r].symbol,
                               type |-> OrderType(req[r].parsed.action),
                               volume |-> v],
                    !.orderRes = res,
                    !.trace = @ \o <<"place_market_order", "AddOrder">>]
        IN  req' = [req EXCEPT ![r] =
                IF res.raised
                THEN q
                ELSE [q EXCEPT !.pc = "done", !.resp = Resp(200, "success", "")]]
    /\ UNCHANGED <<WEBHOOK_TOKEN, accepted, fn>>

\* lines 150-156 and place_market_order
PlaceMarketOrder(r, res) ==
    /\ req[r].pc = "order"
    /\ \E v \in VolStr(req[r].volume) :
        LET q == [req[r] EXCEPT
                    !.order = [pair |-> req[r].symbol,
                               type |-> OrderType(req[r].parsed.action),
                               volume |-> v],
                    !.orderRes = res,
                    !.trace = @ \o <<"place_market_order", "AddOrder">>,
                    !.pc = "done"]
        IN  req' = [req EXCEPT ![r] =
                IF res.raised
                THEN [q EXCEPT !.resp = Resp(500, "error", "order_failed")]
                ELSE [q EXCEPT !.resp = Resp(200, "success", "")]]
    /\ UNCHANGED <<WEBHOOK_TOKEN, accepted, fn>>

\* Seconds a request may arrive after the previous accepted one
MaxGap == 1

Gaps == IF accepted THEN 0..MaxGap ELSE {NoPrev}

NoFn == [op |-> "none"]

Init ==
    /\ WEBHOOK_TOKEN \in Tokens
    /\ req = [r \in Reqs |-> IdleReq]
    /\ accepted = FALSE
    /\ fn = NoFn

Next ==
    \E r \in Reqs :
        \/ \E auth \in AuthHeaders, payload \in HandlerPayloads, gap \in Gaps :
              Receive(r, auth, TRUE, payload, gap)
        \/ \E auth \in AuthHeaders, gap \in Gaps :
              Receive(r, auth, FALSE, OtherPayload, gap)
        \/ \E res \in TickerOutcomes : GetLastPrice(r, res)
        \/ \E res \in OrderOutcomes : PlaceMarketOrder(r, res)

Spec == Init /\ [][Next]_vars

-----------------------------------------------------------------------------
(* normalize_pair on its own: a symbol, a respelling of it, and the        *)
(* normalizer applied once and twice                                       *)

\* Longest symbol tried
MaxSymLen == 4

Separators == {"-", "_", "/"}
SymbolLetters == {"B", "T", "C", "c"}

RECURSIVE StrsOfLen(_, _)
StrsOfLen(alphabet, n) ==
    IF n = 0 THEN {""}
    ELSE {s \o c : s \in StrsOfLen(alphabet, n - 1), c \in alphabet}

\* The symbols: letters and separators, at least one letter
Symbols ==
    {s \in UNION {StrsOfLen(SymbolLetters \cup Separators, n) : n \in 1..MaxSymLen} :
        Chars(s) \cap SymbolLetters # {}}

SwapCase(c) == IF c \in Chars(Lowers) THEN UpperChar(c) ELSE LowerChar(c)

\* The spellings one edit away from x: a letter in the other case, a
\* separator more, a separator less
Respellings(x) ==
    {x}
    \cup {SubSeq(x, 1, i - 1) \o SwapCase(CharAt(x, i)) \o SubSeq(x, i + 1, Len(x)) :
            i \in 1..Len(x)}
    \cup {SubSeq(x, 1, i) \o sep \o SubSeq(x, i + 1, Len(x)) :
            i \in 0..Len(x), sep \in Separators}
    \cup {SubSeq(x, 1, i - 1) \o SubSeq(x, i + 1, Len(x)) :
            i \in {j \in 1..Len(x) : CharAt(x, j) \in Separators}}

InitNormalize ==
    /\ WEBHOOK_TOKEN = ""
    /\ req = [r \in Reqs |-> IdleReq]
    /\ accepted = FALSE
    /\ \E x \in Symbols : \E y \in Respellings(x) :
          fn = [op |-> "normalize_pair", stage |-> 0, x |-> x, y |-> y,
                nx |-> "", ny |-> "", nnx |-> ""]

\* normalize_pair(x) and normalize_pair(y)
Normalize ==
    /\ fn.stage = 0
    /\ fn' = [fn EXCEPT !.stage = 1,
                        !.nx = normalize_pair(fn.x),
                        !.ny = normalize_pair(fn.y)]
    /\ UNCHANGED <<WEBHOOK_TOKEN, req, accepted>>

\* normalize_pair(normalize_pair(x))
NormalizeAgain ==
    /\ fn.stage = 1
    /\ fn' = [fn EXCEPT !.stage = 2, !.nnx = normalize_pair(fn.nx)]
    /\ UNCHANGED <<WEBHOOK_TOKEN, req, accepted>>

NextNormalize == Normalize \/ NormalizeAgain

SpecNormalize == InitNormalize /\ [][NextNormalize]_vars

-----------------------------------------------------------------------------
(* parse_message on its own, over the valid alerts *)

AlertSymbols == {"BTC-USD", "eth/usd"}
AlertActions == {"buy", "SELL", "Buy"}
\* amount texts with the numbers they denote
AlertAmounts == {<<"10", 10>>, <<"5", 5>>}
SymbolKeys == {"symbol", "ticker", "pair"}

\* A key as a delimited message may spell it
KeySpellings(k) == {k, StrUpper(k)}

\* "key: value; key: value; key: value" in three layouts
Delimited(ks, s, ka, a, km, n, layout) ==
    CASE layout = "plain" ->
            ks \o ": " \o s \o "; " \o ka \o ": " \o a \o "; " \o km \o ": " \o n
      [] layout = "tight" ->
            ks \o ":" \o s \o ";" \o ka \o ":" \o a \o ";" \o km \o ":" \o n
      [] OTHER ->
            "  " \o ks \o " :  " \o s \o " ;; " \o ka \o "\t: " \o a \o " ; "
                 \o km \o " : " \o n \o " ;\n"

Layouts == {"plain", "tight", "loose"}

\* Every valid alert with the intent it asks for
DelimitedAlerts ==
    {[text |-> Delimited(ks, s, ka, a, km, n[1], layout),
      want |-> Intent(JStr(s), StrLower(a), FNum(n[2]))] :
        ks \in UNION {KeySpellings(k) : k \in SymbolKeys},
        ka \in KeySpellings("action"), km \in KeySpellings("amount"),
        s \in AlertSymbols, a \in AlertActions, n \in AlertAmounts,
        layout \in Layouts}

ValidAlerts ==
    {[payload |-> StrPayload(m.text), want |-> m.want] : m \in DelimitedAlerts}
    \cup {[payload |-> DictPayload(Msg(m.text)), want |-> m.want] : m \in DelimitedAlerts}
    \cup {[payload |-> DictPayload(Obj(k, JStr(s), JStr(a),
                                          IF num THEN JNum(n[2]) ELSE JStr(n[1]))),
           want |-> Intent(JStr(s), StrLower(a), FNum(n[2]))] :
            k \in SymbolKeys, s \in AlertSymbols, a \in AlertActions,
            n \in AlertAmounts, num \in BOOLEAN}

InitParse ==
    /\ WEBHOOK_TOKEN = ""
    /\ req = [r \in Reqs |-> IdleReq]
    /\ accepted = FALSE
    /\ \E a \in ValidAlerts :
          fn = [op |-> "parse_message", stage |-> 0, payload |-> a.payload,
                want |-> a.want, out |-> NoIntent]

Parse ==
    /\ fn.stage = 0
    /\ fn' = [fn EXCEPT !.stage = 1, !.out = parse_message(fn.payload)]
    /\ UNCHANGED <<WEBHOOK_TOKEN, req, accepted>>

NextParse == Parse

SpecParse == InitParse /\ [][NextParse]_vars

-----------------------------------------------------------------------------
(* Properties *)

Has(trace, f) == \E i \in DOMAIN trace : trace[i] = f
Count(trace, f) == Cardinality({i \in DOMAIN trace : trace[i] = f})
IndexOf(trace, f) == CHOOSE i \in DOMAIN trace : trace[i] = f

\* The price fetch of a request failed: a raised transport exception, an
\* error payload or an empty result
PriceFetchFailed(q) ==
    /\ Has(q.trace, "Ticker")
    /\ q.ticker.raised \/ q.ticker.error # <<>> \/ q.ticker.last = ""

\* C1: while a token is configured, a request whose Authorization header is
\* absent or is not 'Bearer <token>' is answered 401 'unauthorized', and
\* neither parse_message nor get_last_price nor place_market_order runs for it.
C1_UnauthorizedRejected ==
    \A r \in Reqs :
        (/\ req[r].pc # "idle"
         /\ WEBHOOK_TOKEN # ""
         /\ req[r].auth # "Bearer " \o WEBHOOK_TOKEN)
        => /\ req[r].pc = "done"
           /\ req[r].resp = Resp(401, "error", "unauthorized")
           /\ \A f \in {"parse_message", "get_last_price", "place_market_order",
                        "Ticker", "AddOrder"} : ~Has(req[r].trace, f)

C1_Witness ==
    \E r \in Reqs :
        /\ WEBHOOK_TOKEN = "s3cret"
        /\ req[r].auth = "Bearer s3cre"
        /\ req[r].payload = AlertBuy
        /\ req[r].resp.code = 401

\* C2: an authorized request whose payload is malformed (a field missing, an
\* amount that is no positive number, an action other than buy or sell) is
\* answered 400 'invalid payload' and no order is submitted for it.
MalformedPayloads == {AlertHold, AlertNegative, AlertNoAmount, OtherPayload}

C2_MalformedNeverOrdered ==
    \A r \in Reqs :
        (/\ req[r].pc # "idle"
         /\ Authorized(WEBHOOK_TOKEN, req[r].auth)
         /\ req[r].payload \in MalformedPayloads)
        => /\ ~Has(req[r].trace, "AddOrder")
           /\ req[r].pc = "done" => req[r].resp = Resp(400, "error", "invalid payload")

\* C3: an order is submitted only after get_last_price returned a price, and
\* a failed price fetch ends the request with 500 'price_fetch_failed' and
\* without an order submission.
C3_OrderOnlyAfterPrice ==
    \A r \in Reqs :
        LET q == req[r]
        IN  /\ Has(q.trace, "place_market_order")
                => /\ Has(q.trace, "get_last_price")
                   /\ IndexOf(q.trace, "get_last_price")
                        < IndexOf(q.trace, "place_market_order")
                   /\ ~PriceFetchFailed(q)
            /\ PriceFetchFailed(q)
                => /\ q.pc = "done"
                   /\ q.resp = Resp(500, "error", "price_fetch_failed")
                   /\ ~Has(q.trace, "place_market_order")
                   /\ ~Has(q.trace, "AddOrder")

C3_Witness ==
    /\ \E r \in Reqs :
        /\ req[r].ticker = TickerResp(<<"EGeneral:Internal error">>, "3")
        /\ req[r].resp.message = "price_fetch_failed"
    /\ \E r \in Reqs :
        /\ req[r].ticker = TickerResp(<<>>, "3")
        /\ Has(req[r].trace, "AddOrder")

\* Seconds of the rate limiter's cooldown
Cooldown == 1

\* C4: a request that arrives before the cooldown has elapsed since the
\* previously accepted request is answered 200 'ignored' / 'rate_limited'
\* and makes no exchange call.  Stated of the requests that nothing else
\* stops: authorized, with a valid alert.
C4_RateLimited ==
    \A r \in Reqs :
        (/\ req[r].pc # "idle"
         /\ Authorized(WEBHOOK_TOKEN, req[r].auth)
         /\ req[r].payload \in {AlertBuy, AlertSellCad}
         /\ req[r].gap # NoPrev
         /\ req[r].gap < Cooldown)
        => /\ ~Has(req[r].trace, "Ticker")
           /\ ~Has(req[r].trace, "AddOrder")
           /\ req[r].pc = "done" => req[r].resp = Resp(200, "ignored", "rate_limited")

\* C5: an order response that carries an error is reported as 'order_failed'
\* (500 or 400), never as 200 'success'; 'success' is returned only for a
\* response without an error.
C5_OrderErrorReported ==
    \A r \in Reqs :
        (req[r].pc = "done" /\ Has(req[r].trace, "AddOrder"))
        => /\ (~req[r].orderRes.raised /\ req[r].orderRes.error # <<>>)
                => /\ req[r].resp.status = "error"
                   /\ req[r].resp.message = "order_failed"
                   /\ req[r].resp.code \in {400, 500}
           /\ req[r].resp.status = "success"
                => (~req[r].orderRes.raised /\ req[r].orderRes.error = <<>>)

\* C6: for every valid alert (structured or delimited, the symbol under any
\* of symbol, ticker or pair) parse_message returns exactly the intent
\* {symbol, lowercase(action), amount}.
C6_ValidAlertParsed ==
    (fn.op = "parse_message" /\ fn.stage = 1) => fn.out = fn.want

\* C7: normalize_pair is idempotent, and spellings that differ only in letter
\* case or separators normalize to the same pair.
C7_NormalizeIdempotent ==
    fn.op = "normalize_pair"
    => /\ fn.stage >= 1 => fn.nx = fn.ny
       /\ fn.stage = 2 => fn.nnx = fn.nx

\* C8: every order submitted carries a volume that is above zero and at most
\* amount / price.
C8_PositiveVolume ==
    \A r \in Reqs :
        Has(req[r].trace, "AddOrder")
        => /\ req[r].order.volume.k = "num"
           /\ req[r].order.volume.v > 0
           /\ req[r].price.k = "num" /\ req[r].price.v > 0
           /\ req[r].parsed.amount.k = "num"
           /\ req[r].order.volume.v * req[r].price.v <= req[r].parsed.amount.v * Quanta

DefinedResponses ==
    { Resp(401, "error", "unauthorized"),
      Resp(400, "error", "invalid payload"),
      Resp(500, "error", "price_fetch_failed"),
      Resp(500, "error", "order_failed"),
      Resp(400, "error", "order_failed"),
      Resp(200, "success", "") }

\* C9: every request ends with one of the defined responses and no exception
\* leaves the handler.
C9_AlwaysDefinedResponse ==
    \A r \in Reqs :
        /\ req[r].pc # "crashed"
        /\ req[r].pc = "done" => req[r].resp \in DefinedResponses

\* C10: a request queries the price at most once and submits an order at most
\* once, the price query first; a failed price query or order submission ends
\* the request.
C10_NoRetry ==
    \A r \in Reqs :
        LET q == req[r]
        IN  /\ Count(q.trace, "Ticker") <= 1
            /\ Count(q.trace, "AddOrder") <= 1
            /\ Has(q.trace, "AddOrder")
                => /\ Has(q.trace, "Ticker")
                   /\ IndexOf(q.trace, "Ticker") < IndexOf(q.trace, "AddOrder")
            /\ PriceFetchFailed(q)
                => q.pc = "done" /\ q.trace[Len(q.trace)] = "Ticker"
            /\ (Has(q.trace, "AddOrder") /\ (q.orderRes.raised \/ q.orderRes.error # <<>>))
                => q.pc = "done" /\ q.trace[Len(q.trace)] = "AddOrder"

C10_Witness ==
    \E r \in Reqs :
        /\ req[r].pc = "done"
        /\ req[r].orderRes = OrderRaise
        /\ Count(req[r].trace, "Ticker") = 1
        /\ Count(req[r].trace, "AddOrder") = 1

=============================================================================
